---- MODULE Spec2Model ----
(***************************************************************************)
(* The pipeline orchestrator of the news agency backend: NewsAgent         *)
(* (agents.py), the run store (database.py), the attestation step          *)
(* (blockchain_integration.py) and the admin routes that drive them        *)
(* (main.py).                                                              *)
(*                                                                         *)
(* Every run_pipeline() coroutine is a task with a program counter; a step *)
(* of a task is the code between two suspension points (awaits on the      *)
(* store, the ledger, the model or the timer).  The NewsAgent fields are   *)
(* shared by all tasks, exactly as the attributes of the single news_agent *)
(* object are.                                                             *)
(***************************************************************************)
EXTENDS Integers, Sequences, FiniteSets, TLC

\* ---------------------------------------------------------------- bounds
MaxTasks == 2        \* run_pipeline() coroutines ever created
MaxStops == 1        \* _stop_pipeline_cleanup() coroutines ever created
MaxItems == 1        \* items a fetch returns in one cycle
MaxArticles == 1     \* articles ever fetched, over all cycles and runs
MaxFaults == 1       \* store calls that raise, handlers' retries apart
MaxTicks == 2        \* clock advances
MaxObservers == 1    \* websocket connections open when the service starts
MaxLog == 3          \* rows of agent_logs
MaxLen == 1          \* length of a text field of an article
MaxSources == 2      \* feeds in news_sources
MaxEntries == 1      \* entries a feed carries
Durations == {10}    \* duration_minutes of the start requests

\* ------------------------------------------------------ program constants
SleepInterval == 300 \* agents.py:490-491, seconds between two cycles

EntryLimit == 3      \* agents.py:86, feed.entries[:3]

TickSeconds == SleepInterval \* the clock advances by one sleep interval

None == 0            \* Python None for a pipeline id
NoTime == -1         \* NULL timestamp / start_time None
NullMsg == "null"    \* NULL error_message

Tasks == 1..MaxTasks
Stops == 1..MaxStops
RunIds == 1..MaxTasks
MaxTime == MaxTicks * TickSeconds

Terminal == {"COMPLETED", "STOPPED", "ERROR"}

Min(a, b) == IF a < b THEN a ELSE b

VARIABLES
    is_running,               \* NewsAgent.is_running
    current_pipeline_id,      \* NewsAgent.current_pipeline_id
    start_time,               \* NewsAgent.start_time
    current_cycle,            \* NewsAgent.current_cycle
    total_articles_processed, \* NewsAgent.total_articles_processed
    nextId,                   \* number of uuid4() values drawn so far
    pipeline_runs,            \* table pipeline_runs, by pipeline_id
    articles,                 \* table articles, by serial id
    task,                     \* the run_pipeline() coroutines
    cleanup,                  \* the _stop_pipeline_cleanup() coroutines
    now,                      \* datetime.now(), in seconds
    faults,                   \* store calls that have raised so far
    observers,                \* the connections the websocket manager holds
    response,                 \* the reply of GET /admin/pipeline/status the
                              \* last step made, if it made one
    agent_logs,               \* table agent_logs, as send_update writes it
    sent_updates,             \* the calls of send_update that wrote it
    digested,                 \* (article_data, create_article_hash of it)
    last_update,              \* the last call of update_pipeline_status made
                              \* on its own, and the record it found
    staged                    \* the batch of a cycle on its way through
                              \* the stages, stage by stage

agentVars == <<is_running, current_pipeline_id, start_time, current_cycle,
               total_articles_processed>>
storeVars == <<pipeline_runs, articles>>
envVars == <<now, faults>>
vars == <<is_running, current_pipeline_id, start_time, current_cycle,
          total_articles_processed, nextId, pipeline_runs, articles, task,
          cleanup, now, faults, observers, response, agent_logs,
          sent_updates, digested, last_update, staged>>

\* a call of the store may raise (connection lost, pool closed, timeout)
\* while the model's budget of failures lasts
MayFail(fail) == fail => faults < MaxFaults

\* ------------------------------------------------------------- run store

\* row of pipeline_runs before create_pipeline_run() inserted it
NoRun == [status |-> "NONE", current_cycle |-> 0, articles_processed |-> 0,
          error_message |-> NullMsg, ended_at |-> NoTime]

RunExists(runs, id) == id \in RunIds /\ runs[id].status # "NONE"

\* INSERT INTO pipeline_runs: status RUNNING, the column defaults elsewhere
create_pipeline_run(runs, id) ==
    [runs EXCEPT ![id] = [status |-> "RUNNING", current_cycle |-> 0,
                          articles_processed |-> 0,
                          error_message |-> NullMsg, ended_at |-> NoTime]]

update_pipeline_status_no_ended_at(runs, id, status, msg, ts) ==
    IF RunExists(runs, id)
    THEN [runs EXCEPT ![id] = [@ EXCEPT !.status = status,
                                        !.error_message = msg]]
    ELSE runs

update_pipeline_status_keeps_message(runs, id, status, msg, ts) ==
    IF RunExists(runs, id)
    THEN [runs EXCEPT ![id] =
            [@ EXCEPT !.status = status,
                      !.error_message = IF msg = NullMsg THEN @ ELSE msg,
                      !.ended_at = IF status \in Terminal THEN ts ELSE @]]
    ELSE runs

\* UPDATE pipeline_runs SET status, error_message [, ended_at] WHERE id
update_pipeline_status(runs, id, status, msg, ts) ==
    IF RunExists(runs, id)
    THEN [runs EXCEPT ![id] =
            [@ EXCEPT !.status = status,
                      !.error_message = msg,
                      !.ended_at = IF status \in Terminal THEN ts ELSE @]]
    ELSE runs

\* UPDATE pipeline_runs SET current_cycle, articles_processed WHERE id
update_pipeline_progress(runs, id, cycle, processed) ==
    IF RunExists(runs, id)
    THEN [runs EXCEPT ![id] = [@ EXCEPT !.current_cycle = cycle,
                                        !.articles_processed = processed]]
    ELSE runs

\* the attestation columns of a row of articles; a digest, a transaction
\* hash, an article id on the ledger and an explorer URL are modelled by
\* their presence
AttestationColumns == {"blockchain_stored", "blockchain_transaction_hash",
                       "blockchain_article_id", "blockchain_network",
                       "blockchain_explorer_url", "content_hash",
                       "metadata_hash"}

\* INSERT INTO articles: the attestation columns keep the defaults of the
\* table, blockchain_stored FALSE, blockchain_network 'bsc_testnet', NULL
\* elsewhere.  ledger and attest_writes are history: the outcome of the
\* ledger submission made for the article, and the number of UPDATEs of its
\* attestation columns.
save_article_to_db(arts, pid, cycle, original_title, generated_content) ==
    Append(arts, [pipeline_id |-> pid, cycle_number |-> cycle,
                  original_title |-> original_title,
                  generated_content |-> generated_content,
                  blockchain_stored |-> FALSE,
                  blockchain_transaction_hash |-> FALSE,
                  blockchain_article_id |-> FALSE,
                  blockchain_network |-> "bsc_testnet",
                  blockchain_explorer_url |-> FALSE,
                  content_hash |-> FALSE,
                  metadata_hash |-> FALSE,
                  ledger |-> "none", attest_writes |-> 0])

\* UPDATE articles SET the seven attestation columns WHERE id
update_article_blockchain_info(arts, id, blockchain_info) ==
    [arts EXCEPT ![id] =
        [@ EXCEPT !.blockchain_stored = blockchain_info.stored_on_chain,
                  !.blockchain_transaction_hash =
                        blockchain_info.transaction_hash,
                  !.blockchain_article_id =
                        blockchain_info.blockchain_article_id,
                  !.blockchain_network = blockchain_info.network,
                  !.blockchain_explorer_url = blockchain_info.explorer_url,
                  !.content_hash = blockchain_info.content_hash,
                  !.metadata_hash = blockchain_info.metadata_hash,
                  !.attest_writes = @ + 1]]

\* --------------------------------------------------------- attestation

\* what a ledger submission can come to: the write transaction confirmed
\* with receipt status 1, a receipt with another status, or no receipt
\* (no connection, estimate or send raising, timeout)
LedgerOutcomes == {"confirmed", "reverted", "unavailable"}

\* what the history column ledger keeps of an outcome: whether a receipt
\* with success status was obtained
Receipt(outcome) == IF outcome = "confirmed" THEN "confirmed" ELSE "failed"

store_article_on_blockchain_any_receipt(outcome) ==
    [stored_on_chain |-> outcome \in {"confirmed", "reverted"},
     transaction_hash |-> outcome \in {"confirmed", "reverted"},
     article_id |-> outcome \in {"confirmed", "reverted"},
     explorer_url |-> outcome \in {"confirmed", "reverted"}]

\* blockchain_integration.py:252-357: the result of store_article_on_blockchain
store_article_on_blockchain(outcome) ==
    [stored_on_chain |-> outcome = "confirmed",
     transaction_hash |-> outcome \in {"confirmed", "reverted"},
     article_id |-> outcome = "confirmed",
     explorer_url |-> outcome = "confirmed"]

\* an article of final_articles before integrate_blockchain_hashing
Unhashed(id) == [id |-> id, blockchain_hashes |-> FALSE,
                 blockchain_stored |-> FALSE,
                 blockchain_transaction |-> FALSE,
                 transaction |-> store_article_on_blockchain("unavailable")]

hashed_article_keeps_every_result(article, success, blockchain_result) ==
    IF success
    THEN [article EXCEPT !.blockchain_hashes = TRUE,
                         !.blockchain_stored =
                                blockchain_result.stored_on_chain,
                         !.blockchain_transaction = TRUE,
                         !.transaction = blockchain_result]
    ELSE article

\* blockchain_integration.py:540-548: what integrate_blockchain_hashing
\* leaves on the article for a hash_result
hashed_article(article, success, blockchain_result) ==
    IF success
    THEN [article EXCEPT !.blockchain_hashes = TRUE,
                         !.blockchain_stored =
                                blockchain_result.stored_on_chain,
                         !.blockchain_transaction =
                                blockchain_result.stored_on_chain,
                         !.transaction =
                            IF blockchain_result.stored_on_chain
                            THEN blockchain_result ELSE @]
    ELSE article

\* agents.py:429-438: the blockchain_info built from a hashed article
blockchain_info_of(article) ==
    [stored_on_chain |-> article.blockchain_stored,
     transaction_hash |-> article.blockchain_transaction
                            /\ article.transaction.transaction_hash,
     blockchain_article_id |-> article.blockchain_transaction
                            /\ article.transaction.article_id,
     network |-> "bsc_testnet",
     explorer_url |-> article.blockchain_transaction
                            /\ article.transaction.explorer_url,
     content_hash |-> article.blockchain_hashes,
     metadata_hash |-> article.blockchain_hashes]

\* ----------------------------------------------------------- broadcaster

Observers == 1..MaxObservers

broadcast_raising(connections, failing) ==
    [connections |-> connections, raised |-> failing # {}]

\* websocket_manager.broadcast: the message is sent to every connection; a
\* connection whose send fails is dropped, the others are still served and
\* nothing is raised
broadcast(connections, failing) ==
    [connections |-> connections \ failing, raised |-> FALSE]

\* agents.py:53-57: the broadcast of send_update, inside its own try; any
\* subset of the connections may have gone away.  The log write of
\* send_update cannot raise out of it either (agents.py:60-71).
Publish ==
    \E failing \in SUBSET observers :
        observers' = broadcast(observers, failing).connections

\* the agents that publish through send_update
AgentNames == {"Pipeline", "Article Generator"}

\* database.py:164-178, log_agent_activity: one more row of agent_logs
log_agent_activity(logs, pipeline_id, agent_name, log_level) ==
    Append(logs, [pipeline_id |-> pipeline_id, agent_name |-> agent_name,
                  log_level |-> log_level])

send_update_delivery_first(pid, agent_name, connections, logs, failing, log_fails) ==
    LET sent == broadcast(connections, failing)
    IN [connections |-> sent.connections,
        agent_logs |-> IF pid # None /\ failing = {} /\ ~log_fails
                       THEN log_agent_activity(logs, pid, agent_name, "INFO")
                       ELSE logs,
        raised |-> pid # None /\ failing = {} /\ log_fails]

\* agents.py:42-71, NewsAgent.send_update: the broadcast in its try, then,
\* when a pipeline id is set, the log write in its try; what either raises
\* is printed and goes no further
send_update(pid, agent_name, connections, logs, failing, log_fails) ==
    LET sent == broadcast(connections, failing)
    IN [connections |-> sent.connections,
        agent_logs |-> IF pid # None /\ ~log_fails
                       THEN log_agent_activity(logs, pid, agent_name, "INFO")
                       ELSE logs,
        raised |-> FALSE]

\* the batch of a cycle before fetch_news is called
\* feeds, llm_failed and save_failed are history: what the sources gave, and
\* for which items of the batch the model call and the INSERT of the last
\* stage failed
NotStaged == [stage |-> "fetch", articles |-> <<>>, events |-> <<>>,
              final_articles |-> <<>>, feeds |-> <<>>, llm_failed |-> {},
              save_failed |-> {}]

\* a step of the pipeline answers no status request and is not one of the
\* calls of send_update, create_article_hash, update_pipeline_status and
\* the stages that are followed on their own
PipelineStep == /\ response' = <<>>
                /\ UNCHANGED <<agent_logs, sent_updates, digested,
                               last_update, staged>>

\* ------------------------------------------------------------ coroutines

NoTask == [pc |-> "idle", dur |-> 0, end_time |-> NoTime, wake |-> NoTime,
           myId |-> None, exc |-> "none", batch |-> 0, final |-> <<>>,
           idx |-> 1, pid |-> None, saved |-> 0, slept |-> 0,
           stopReq |-> FALSE,
           finalEvent |-> FALSE, undelivered |-> FALSE]

\* a task between the acceptance of its start and its finally block
InFlight(t) == task[t].pc \notin {"idle", "init", "done"}

\* a task inside the while loop of run_pipeline, asleep or at work
InLoop(t) == task[t].pc \in {"loop", "generate", "generated", "attest",
                             "attest_err",
                             "persist", "persist_err", "progress", "sleep"}

Init ==
    /\ is_running = FALSE
    /\ current_pipeline_id = None
    /\ start_time = NoTime
    /\ current_cycle = 0
    /\ total_articles_processed = 0
    /\ nextId = 0
    /\ pipeline_runs = [r \in RunIds |-> NoRun]
    /\ articles = <<>>
    /\ task = [t \in Tasks |-> NoTask]
    /\ cleanup = [c \in Stops |-> "idle"]
    /\ now = 0
    /\ faults = 0
    /\ observers = {}
    /\ response = <<>>
    /\ agent_logs = <<>>
    /\ sent_updates = <<>>
    /\ digested = {}
    /\ last_update = <<>>
    /\ staged = NotStaged

\* ------------------------------------------------------------ admin routes

\* the first unused coroutine slot
FreeTask == CHOOSE t \in Tasks : task[t].pc = "idle" /\
                \A u \in Tasks : u < t => task[u].pc # "idle"
FreeStop == CHOOSE c \in Stops : cleanup[c] = "idle" /\
                \A d \in Stops : d < c => cleanup[d] # "idle"

\* main.py:298-305, POST /admin/pipeline/start: refused with 400 while
\* is_running; otherwise the coroutine is handed to create_background_task()
\* and takes its first step in a later iteration of the event loop
start_pipeline(d) ==
    /\ ~is_running
    /\ \E t \in Tasks : task[t].pc = "idle"
    /\ now + d * 60 <= MaxTime
    /\ task' = [task EXCEPT ![FreeTask] = [@ EXCEPT !.pc = "init", !.dur = d]]
    /\ UNCHANGED <<agentVars, nextId, storeVars, cleanup, envVars>>
    /\ UNCHANGED observers
    /\ PipelineStep

\* agents.py:520-525, NewsAgent.stop_pipeline (main.py:322-328 refuses the
\* request with 400 unless is_running): clears the flag and schedules the
\* cleanup task
stop_pipeline ==
    /\ is_running
    /\ \E c \in Stops : cleanup[c] = "idle"
    /\ IF current_pipeline_id # None
       THEN /\ is_running' = FALSE
            /\ cleanup' = [cleanup EXCEPT ![FreeStop] = "scheduled"]
            /\ task' = [t \in Tasks |->
                IF InFlight(t) /\ task[t].myId = current_pipeline_id
                THEN [task[t] EXCEPT !.stopReq = TRUE] ELSE task[t]]
       ELSE UNCHANGED <<is_running, cleanup, task>>
    /\ UNCHANGED <<current_pipeline_id, start_time, current_cycle,
                   total_articles_processed, nextId, storeVars, envVars>>
    /\ UNCHANGED observers
    /\ PipelineStep

\* ------------------------------------------- _stop_pipeline_cleanup task

\* agents.py:527-531: when a pipeline id is still set, the run of that id is
\* marked STOPPED; a call that raises ends the task with its exception
stop_pipeline_cleanup(c) ==
    /\ cleanup[c] = "scheduled"
    /\ cleanup' = [cleanup EXCEPT ![c] = "done"]
    /\ IF current_pipeline_id = None
       THEN UNCHANGED <<pipeline_runs, faults, observers>>
       ELSE \E fail \in BOOLEAN :
            /\ MayFail(fail)
            /\ IF fail
               THEN /\ faults' = faults + 1
                    /\ UNCHANGED <<pipeline_runs, observers>>
               ELSE /\ pipeline_runs' = update_pipeline_status(pipeline_runs,
                            current_pipeline_id, "STOPPED", NullMsg, now)
                    /\ Publish
                    /\ UNCHANGED faults
    /\ UNCHANGED <<agentVars, nextId, articles, task, now>>
    /\ PipelineStep

\* ------------------------------------------------------------ environment

\* time passes while some coroutine works on a cycle or sleeps
Tick ==
    /\ now + TickSeconds <= MaxTime
    /\ \E t \in Tasks : task[t].pc \in {"generate", "attest", "persist",
                                         "progress", "sleep"}
    /\ now' = now + TickSeconds
    /\ UNCHANGED <<agentVars, nextId, storeVars, task, cleanup, faults>>
    /\ UNCHANGED observers
    /\ PipelineStep

\* ---------------------------------------------------- run_pipeline coroutine

Step(t, rec) == task' = [task EXCEPT ![t] = rec]

AlreadyRunning_never == FALSE

\* agents.py:377, the guard of run_pipeline
AlreadyRunning == is_running

NextCycle_decrement(c) == c - 1

\* agents.py:396, self.current_cycle += 1
NextCycle(c) == c + 1

\* agents.py:377-385: the guard, then the five assignments, with no
\* suspension point between the test of is_running and its assignment
run_begin(t) ==
    /\ task[t].pc = "init"
    /\ IF AlreadyRunning
       THEN /\ Step(t, [task[t] EXCEPT !.pc = "done"])
            /\ Publish
            /\ UNCHANGED <<agentVars, nextId>>
       ELSE /\ is_running' = TRUE
            /\ current_pipeline_id' = nextId + 1
            /\ nextId' = nextId + 1
            /\ start_time' = now
            /\ current_cycle' = 0
            /\ total_articles_processed' = 0
            /\ Step(t, [task[t] EXCEPT !.pc = "create", !.myId = nextId + 1])
            /\ UNCHANGED observers
    /\ UNCHANGED <<storeVars, cleanup, envVars>>
    /\ PipelineStep

run_create_swallowing(t) ==
    /\ task[t].pc = "create"
    /\ \E fail \in BOOLEAN :
        /\ MayFail(fail)
        /\ IF fail
           THEN /\ Step(t, [task[t] EXCEPT
                                !.pc = "loop",
                                !.end_time = start_time + task[t].dur * 60])
                /\ faults' = faults + 1
                /\ UNCHANGED pipeline_runs
           ELSE /\ UNCHANGED faults
                /\ IF current_pipeline_id # None
                        /\ ~RunExists(pipeline_runs, current_pipeline_id)
                   THEN /\ pipeline_runs' = create_pipeline_run(pipeline_runs,
                                                current_pipeline_id)
                        /\ Step(t, [task[t] EXCEPT
                                !.pc = "loop",
                                !.end_time = start_time + task[t].dur * 60])
                   ELSE /\ Step(t, [task[t] EXCEPT !.pc = "except",
                                                   !.exc = "create"])
                        /\ UNCHANGED pipeline_runs
    /\ UNCHANGED <<agentVars, nextId, articles, cleanup, now>>
    /\ Publish
    /\ PipelineStep


\* agents.py:388-393: create_pipeline_run(self.current_pipeline_id, ...) and
\* end_time; the INSERT also raises when the id is NULL and when the id is
\* already there (UNIQUE NOT NULL)
run_create(t) ==
    /\ task[t].pc = "create"
    /\ \E fail \in BOOLEAN :
        /\ MayFail(fail)
        /\ IF fail
           THEN /\ Step(t, [task[t] EXCEPT !.pc = "except", !.exc = "create"])
                /\ faults' = faults + 1
                /\ UNCHANGED pipeline_runs
           ELSE /\ UNCHANGED faults
                /\ IF current_pipeline_id # None
                        /\ ~RunExists(pipeline_runs, current_pipeline_id)
                   THEN /\ pipeline_runs' = create_pipeline_run(pipeline_runs,
                                                current_pipeline_id)
                        /\ Step(t, [task[t] EXCEPT
                                !.pc = "loop",
                                !.end_time = start_time + task[t].dur * 60])
                   ELSE /\ Step(t, [task[t] EXCEPT !.pc = "except",
                                                   !.exc = "create"])
                        /\ UNCHANGED pipeline_runs
    /\ UNCHANGED <<agentVars, nextId, articles, cleanup, now>>
    /\ Publish
    /\ PipelineStep

SleepFor_whole_interval(remaining_time) ==
    IF remaining_time > 0 THEN SleepInterval ELSE 0

\* agents.py:489-495: how long the loop sleeps; 0 is the break
SleepFor(remaining_time) ==
    IF remaining_time > SleepInterval THEN SleepInterval
    ELSE IF remaining_time > 0 THEN remaining_time
    ELSE 0

\* agents.py:488-495: the task sleeps, or leaves the loop; slept, history,
\* is the delay given to asyncio.sleep
Sleep(rec) ==
    IF SleepFor(rec.end_time - now) > 0
    THEN [rec EXCEPT !.pc = "sleep",
                     !.wake = now + SleepFor(rec.end_time - now),
                     !.slept = SleepFor(rec.end_time - now)]
    ELSE [rec EXCEPT !.pc = "complete"]

\* ---------------------------------------------------------------- stages

Sources == 1..MaxSources

Summaries == {"", "summary"}

\* what the request for the page of an entry comes to: status 200 and a
\* text, an exception (timeout, connection or parsing error), or a response
\* with another status
PageOutcomes == {"ok", "exception", "status"}

\* the entries a feed of a source can carry
Entries(source) == [title : {source}, summary : Summaries,
                    page : PageOutcomes]

\* what feedparser.parse(source_url) comes to: it raises; or it returns a
\* feed, with its entries, or, when the feed could not be retrieved, with
\* the failure recorded in the result and no entries, which fetch_news does
\* not look at
FeedResults(source) ==
    {[result |-> "raises", entries |-> <<>>],
     [result |-> "unretrieved", entries |-> <<>>]}
    \cup {[result |-> "feed", entries |-> es] :
            es \in UNION {[1..n -> Entries(source)] : n \in 0..MaxEntries}}

Feeds == {f \in [Sources -> UNION {FeedResults(source) : source \in Sources}] :
            \A source \in Sources : f[source] \in FeedResults(source)}

\* agents.py:101-158: the article made of one entry; page, history, is the
\* outcome of the request for its page
fetched_article(source, entry) ==
    [title |-> entry.title, summary |-> entry.summary, source |-> source,
     content |-> CASE entry.page = "ok" -> "page"
                   [] entry.page = "exception" -> entry.summary
                   [] entry.page = "status" -> "",
     page |-> entry.page,
     authenticity_check |-> "none", unbiased_version |-> "none"]

\* agents.py:80-163: one source; the events are those of lines 160 and 163
fetch_source(source, feed) ==
    IF feed.result = "raises"
    THEN [articles |-> <<>>,
          events |-> <<[event |-> "Error fetching from", source |-> source,
                        count |-> 0]>>]
    ELSE LET entries == SubSeq(feed.entries, 1,
                               Min(EntryLimit, Len(feed.entries)))
         IN [articles |-> [k \in 1..Len(entries) |->
                                fetched_article(source, entries[k])],
             events |-> <<[event |-> "Fetched", source |-> source,
                           count |-> Len(entries)]>>]

RECURSIVE fetch_news_from(_, _)
fetch_news_from(source, feeds) ==
    IF source > MaxSources
    THEN [all_articles |-> <<>>, events |-> <<>>]
    ELSE LET here == fetch_source(source, feeds[source])
             rest == fetch_news_from(source + 1, feeds)
         IN [all_articles |-> here.articles \o rest.all_articles,
             events |-> here.events \o rest.events]

\* agents.py:73-166, NewsAgent.fetch_news: source after source
fetch_news(feeds) == fetch_news_from(1, feeds)

check_authenticity_dropping(batch, failing) ==
    LET kept == SelectSeq([i \in 1..Len(batch) |-> i],
                          LAMBDA i : i \notin failing)
    IN [k \in 1..Len(kept) |->
            [batch[kept[k]] EXCEPT !.authenticity_check = "analysis"]]

\* agents.py:168-229, NewsAgent.check_authenticity: every item is appended,
\* with the analysis of the model or, for the items whose model call
\* failed, with the error annotation
check_authenticity(batch, failing) ==
    [i \in 1..Len(batch) |->
        [batch[i] EXCEPT !.authenticity_check =
            IF i \in failing THEN "error" ELSE "analysis"]]

\* agents.py:249-296, NewsAgent.remove_bias: every item is appended, with
\* the rewrite of the model or, for the items whose model call failed, with
\* its own content
remove_bias(batch, failing) ==
    [i \in 1..Len(batch) |->
        [batch[i] EXCEPT !.unbiased_version =
            IF i \in failing THEN batch[i].content ELSE "unbiased"]]

RECURSIVE generate_articles_stopping(_, _, _, _, _, _)
generate_articles_stopping(arts, pid, cycle, batch, llm_failing, save_failing) ==
    IF batch = <<>>
    THEN [articles |-> arts, final_articles |-> <<>>, processed |-> 0]
    ELSE LET n == Len(batch)
             before == generate_articles_stopping(arts, pid, cycle,
                            SubSeq(batch, 1, n - 1), llm_failing,
                            save_failing)
             generated_content == IF n \in llm_failing THEN "degraded"
                                  ELSE "generated"
         IN IF \E k \in save_failing : k <= n
            THEN before
            ELSE [articles |-> save_article_to_db(before.articles, pid,
                                cycle, batch[n].title, generated_content),
                  final_articles |-> Append(before.final_articles,
                        [id |-> Len(before.articles) + 1,
                         original_title |-> batch[n].title,
                         generated_content |-> generated_content]),
                  processed |-> before.processed + 1]

\* agents.py:298-373, NewsAgent.generate_articles: item after item, the
\* content the model generated, or the degraded content when its call
\* failed, is saved; an item whose INSERT raised is reported and left out
RECURSIVE generate_articles(_, _, _, _, _, _)
generate_articles(arts, pid, cycle, batch, llm_failing, save_failing) ==
    IF batch = <<>>
    THEN [articles |-> arts, final_articles |-> <<>>, processed |-> 0]
    ELSE LET n == Len(batch)
             before == generate_articles(arts, pid, cycle,
                            SubSeq(batch, 1, n - 1), llm_failing,
                            save_failing)
             generated_content == IF n \in llm_failing THEN "degraded"
                                  ELSE "generated"
         IN IF n \in save_failing
            THEN before
            ELSE [articles |-> save_article_to_db(before.articles, pid,
                                cycle, batch[n].title, generated_content),
                  final_articles |-> Append(before.final_articles,
                        [id |-> Len(before.articles) + 1,
                         original_title |-> batch[n].title,
                         generated_content |-> generated_content]),
                  processed |-> before.processed + 1]

\* a batch of n items as fetch_news returns it
Fetched(n) ==
    [i \in 1..n |-> fetched_article(1, [title |-> i, summary |-> "summary",
                                        page |-> "ok"])]

\* agents.py:395-412 and 485-486: the while test, the increment of the cycle
\* counter, then fetch, verify and de-bias of the batch; an empty batch goes
\* straight to the sleep
run_loop(t) ==
    /\ task[t].pc = "loop"
    /\ IF is_running /\ now < task[t].end_time
       THEN /\ current_cycle' = NextCycle(current_cycle)
            /\ Publish
            /\ \E n \in 0..MaxItems :
                /\ Len(articles) + n <= MaxArticles
                /\ IF n = 0
                   THEN Step(t, Sleep(task[t]))
                   ELSE \E verify_failing \in SUBSET (1..n) :
                        \E bias_failing \in SUBSET (1..n) :
                          Step(t, [task[t] EXCEPT
                            !.pc = "generate",
                            !.batch = Len(remove_bias(
                                check_authenticity(Fetched(n),
                                    verify_failing), bias_failing)),
                            !.final = <<>>, !.idx = 1])
       ELSE /\ Step(t, [task[t] EXCEPT !.pc = "complete"])
            /\ UNCHANGED <<current_cycle, observers>>
    /\ UNCHANGED <<is_running, current_pipeline_id, start_time,
                   total_articles_processed, nextId, storeVars, cleanup,
                   envVars>>
    /\ PipelineStep

\* agents.py:372 and 415-423: the item after this one or, after the last,
\* the call of integrate_blockchain_hashing with the pipeline id of that
\* moment; with no article saved the bookkeeping has nothing to visit
NextItem(t, final_articles) ==
    IF task[t].idx = task[t].batch
    THEN [task[t] EXCEPT
            !.pc = IF final_articles = <<>> THEN "progress" ELSE "attest",
            !.idx = 1, !.final = final_articles, !.saved = 0,
            !.pid = current_pipeline_id]
    ELSE [task[t] EXCEPT !.pc = "generate", !.idx = @ + 1,
                         !.final = final_articles, !.saved = 0]

\* agents.py:304-346 and 369-370: one item of generate_articles up to the
\* await of save_article_to_db, called with the pipeline id and the cycle of
\* that moment; an INSERT that raises is caught per item and the item is
\* left out of final_articles.  The item is known here by its place in the
\* batch; what the model call made of it is followed in generate_articles.
run_generate(t) ==
    /\ task[t].pc = "generate"
    /\ \E fail \in BOOLEAN :
        /\ MayFail(fail)
        /\ IF fail
           THEN /\ Step(t, NextItem(t, task[t].final))
                /\ faults' = faults + 1
                /\ UNCHANGED articles
           ELSE /\ articles' = save_article_to_db(articles,
                                    current_pipeline_id, current_cycle,
                                    task[t].idx, "generated")
                /\ Step(t, [task[t] EXCEPT !.pc = "generated",
                                           !.saved = Len(articles) + 1])
                /\ UNCHANGED faults
    /\ UNCHANGED <<agentVars, nextId, pipeline_runs, cleanup, now>>
    /\ Publish
    /\ PipelineStep

\* agents.py:348-367: save_article_to_db has returned; the article joins
\* final_articles and the processed count of the orchestrator goes up
run_generated(t) ==
    /\ task[t].pc = "generated"
    /\ total_articles_processed' = total_articles_processed + 1
    /\ Step(t, NextItem(t, Append(task[t].final, Unhashed(task[t].saved))))
    /\ UNCHANGED <<is_running, current_pipeline_id, start_time, current_cycle,
                   nextId, storeVars, cleanup, envVars>>
    /\ Publish
    /\ PipelineStep

\* the per-article loops of the attestation step and of its bookkeeping
NextArticle(t, rec, after) ==
    IF task[t].idx = Len(task[t].final)
    THEN [rec EXCEPT !.pc = after, !.idx = 1]
    ELSE [rec EXCEPT !.idx = @ + 1]

\* a coroutine leaves its cycle with an exception; undelivered, history,
\* tells that a broadcast of the attestation step of the cycle lost an
\* observer
Raise(t, what) ==
    [task[t] EXCEPT !.pc = "except", !.exc = what, !.batch = 0,
                    !.final = <<>>, !.pid = None, !.idx = 1, !.saved = 0,
                    !.undelivered = FALSE]

\* blockchain_integration.py:443-483 and 537-550: store_article_hash for one
\* article.  store_article_on_blockchain turns every ledger failure into a
\* result with stored_on_chain False; the log write after it, made when a
\* pipeline id was passed, may raise into the handler of line 485.  The
\* broadcasts of integrate_blockchain_hashing (lines 509, 553, 567) are made
\* outside any try: what they raise leaves the cycle.
run_attest(t) ==
    /\ task[t].pc = "attest"
    /\ \E outcome \in LedgerOutcomes, fail \in BOOLEAN,
          failing \in SUBSET observers :
        LET a == task[t].final[task[t].idx]
            sent == broadcast(observers, failing)
        IN /\ MayFail(fail)
           /\ fail => task[t].pid # None
           /\ fail => failing = {}
           /\ articles' = [articles EXCEPT ![a.id].ledger = Receipt(outcome)]
           /\ observers' = sent.connections
           /\ IF fail
              THEN /\ Step(t, [task[t] EXCEPT !.pc = "attest_err"])
                   /\ faults' = faults + 1
              ELSE /\ UNCHANGED faults
                   /\ IF sent.raised
                      THEN Step(t, Raise(t, "broadcast"))
                      ELSE Step(t, NextArticle(t,
                            [task[t] EXCEPT
                                !.final[task[t].idx] =
                                    hashed_article(a, TRUE,
                                        store_article_on_blockchain(outcome)),
                                !.undelivered = @ \/ failing # {}],
                            "persist"))
    /\ UNCHANGED <<agentVars, nextId, pipeline_runs, cleanup, now>>
    /\ PipelineStep

\* blockchain_integration.py:485-498 and 540-563: the handler logs the
\* error, a call that is itself unguarded and meets the same store, and
\* returns success False when the log was written; the article is then left
\* as it was and the progress of the step is broadcast
run_attest_err(t) ==
    /\ task[t].pc = "attest_err"
    /\ \E fail \in BOOLEAN, failing \in SUBSET observers :
        LET sent == broadcast(observers, failing)
        IN /\ fail => failing = {}
           /\ observers' = sent.connections
           /\ IF fail
              THEN Step(t, Raise(t, "attest"))
              ELSE IF sent.raised
              THEN Step(t, Raise(t, "broadcast"))
              ELSE Step(t, NextArticle(t,
                    [task[t] EXCEPT
                        !.final[task[t].idx] =
                            hashed_article(task[t].final[task[t].idx], FALSE,
                                store_article_on_blockchain("unavailable")),
                        !.undelivered = @ \/ failing # {}],
                    "persist"))
    /\ UNCHANGED <<agentVars, nextId, storeVars, cleanup, envVars>>
    /\ PipelineStep

\* agents.py:427-460: the article is updated when the attestation step left
\* hashes on it; the log write that follows the UPDATE of an article stored
\* on the ledger may raise into the same handler as the UPDATE
run_persist(t) ==
    /\ task[t].pc = "persist"
    /\ LET a == task[t].final[task[t].idx]
       IN IF a.blockchain_hashes \/ a.blockchain_stored
          THEN \E fail \in {"none", "update", "log"} :
                /\ MayFail(fail # "none")
                /\ fail = "log" => blockchain_info_of(a).stored_on_chain
                /\ IF fail = "update"
                   THEN UNCHANGED articles
                   ELSE articles' = update_article_blockchain_info(
                                articles, a.id, blockchain_info_of(a))
                /\ IF fail = "none"
                   THEN /\ Step(t, NextArticle(t, task[t], "progress"))
                        /\ UNCHANGED faults
                   ELSE /\ Step(t, [task[t] EXCEPT !.pc = "persist_err"])
                        /\ faults' = faults + 1
          ELSE /\ Step(t, NextArticle(t, task[t], "progress"))
               /\ UNCHANGED <<articles, faults>>
    /\ UNCHANGED <<agentVars, nextId, pipeline_runs, cleanup, now>>
    /\ UNCHANGED observers
    /\ PipelineStep

\* agents.py:461-467: the handler logs the error with an unguarded call
\* that meets the same store
run_persist_err(t) ==
    /\ task[t].pc = "persist_err"
    /\ \E fail \in BOOLEAN :
        IF fail
        THEN Step(t, Raise(t, "persist"))
        ELSE Step(t, NextArticle(t, task[t], "progress"))
    /\ UNCHANGED <<agentVars, nextId, storeVars, cleanup, envVars>>
    /\ UNCHANGED observers
    /\ PipelineStep

\* agents.py:469-495: update_pipeline_progress with the shared id and
\* counters (an UPDATE that raises is caught and reported), then the sleep
run_progress(t) ==
    /\ task[t].pc = "progress"
    /\ Step(t, Sleep([task[t] EXCEPT !.batch = 0, !.final = <<>>,
                                     !.pid = None, !.undelivered = FALSE]))
    /\ \E fail \in BOOLEAN :
        /\ MayFail(fail)
        /\ IF fail
           THEN /\ faults' = faults + 1
                /\ UNCHANGED pipeline_runs
           ELSE /\ pipeline_runs' = update_pipeline_progress(pipeline_runs,
                        current_pipeline_id, current_cycle,
                        total_articles_processed)
                /\ UNCHANGED faults
    /\ UNCHANGED <<agentVars, nextId, articles, cleanup, now>>
    /\ Publish
    /\ PipelineStep

\* asyncio.sleep returns once the delay has passed
run_wake(t) ==
    /\ task[t].pc = "sleep"
    /\ now >= task[t].wake
    /\ Step(t, [task[t] EXCEPT !.pc = "loop", !.wake = NoTime,
                               !.slept = 0])
    /\ UNCHANGED <<agentVars, nextId, storeVars, cleanup, envVars>>
    /\ UNCHANGED observers
    /\ PipelineStep

\* agents.py:498-504: update_pipeline_status(self.current_pipeline_id,
\* "COMPLETED") after the loop, whatever ended the loop
run_complete(t) ==
    /\ task[t].pc = "complete"
    /\ \E fail \in BOOLEAN :
        /\ MayFail(fail)
        /\ IF fail
           THEN /\ Step(t, Raise(t, "complete"))
                /\ faults' = faults + 1
                /\ UNCHANGED <<pipeline_runs, observers>>
           ELSE /\ pipeline_runs' = update_pipeline_status(pipeline_runs,
                        current_pipeline_id, "COMPLETED", NullMsg, now)
                /\ Step(t, [task[t] EXCEPT !.pc = "finally"])
                /\ Publish
                /\ UNCHANGED faults
    /\ UNCHANGED <<agentVars, nextId, articles, cleanup, now>>
    /\ PipelineStep

\* agents.py:506-514: update_pipeline_status(self.current_pipeline_id,
\* "ERROR", str(e)); when this raises, the finally block still runs
run_except(t) ==
    /\ task[t].pc = "except"
    /\ Step(t, [task[t] EXCEPT !.pc = "finally"])
    /\ \E fail \in BOOLEAN :
        /\ MayFail(fail)
        /\ IF fail
           THEN /\ faults' = faults + 1
                /\ UNCHANGED <<pipeline_runs, observers>>
           ELSE /\ pipeline_runs' = update_pipeline_status(pipeline_runs,
                        current_pipeline_id, "ERROR", task[t].exc, now)
                /\ Publish
                /\ UNCHANGED faults
    /\ UNCHANGED <<agentVars, nextId, articles, cleanup, now>>
    /\ PipelineStep

run_finally_keeps_flag(t) ==
    /\ task[t].pc = "finally"
    /\ Step(t, [task[t] EXCEPT !.pc = "done", !.finalEvent = TRUE,
                               !.dur = 0, !.end_time = NoTime])
    /\ current_pipeline_id' = None
    /\ UNCHANGED <<is_running, start_time, current_cycle,
                   total_articles_processed, nextId, storeVars, cleanup,
                   envVars>>
    /\ Publish
    /\ PipelineStep

\* agents.py:515-518: the final progress event, then the flag and the id
run_finally(t) ==
    /\ task[t].pc = "finally"
    /\ Step(t, [task[t] EXCEPT !.pc = "done", !.finalEvent = TRUE,
                               !.dur = 0, !.end_time = NoTime])
    /\ is_running' = FALSE
    /\ current_pipeline_id' = None
    /\ UNCHANGED <<start_time, current_cycle, total_articles_processed,
                   nextId, storeVars, cleanup, envVars>>
    /\ Publish
    /\ PipelineStep

get_pipeline_status_resetting ==
    /\ response' = <<[is_running |-> is_running,
                      pipeline_id |-> current_pipeline_id,
                      start_time |-> start_time,
                      current_cycle |-> current_cycle,
                      total_articles_processed |->
                            total_articles_processed]>>
    /\ current_cycle' = 0
    /\ UNCHANGED <<is_running, current_pipeline_id, start_time,
                   total_articles_processed, nextId, storeVars, task,
                   cleanup, envVars, observers, agent_logs, sent_updates,
                   digested, last_update, staged>>

\* agents.py:533-541, NewsAgent.get_status: the five fields, start_time as
\* None when there is none
get_status ==
    [is_running |-> is_running,
     pipeline_id |-> current_pipeline_id,
     start_time |-> start_time,
     current_cycle |-> current_cycle,
     total_articles_processed |-> total_articles_processed]

\* main.py:331-344, GET /admin/pipeline/status: the reply carries the five
\* fields of get_status()
get_pipeline_status ==
    /\ response' = <<get_status>>
    /\ UNCHANGED <<agentVars, nextId, storeVars, task, cleanup, envVars,
                   observers, agent_logs, sent_updates,
                   digested, last_update, staged>>

Next ==
    \/ \E d \in Durations : start_pipeline(d)
    \/ stop_pipeline
    \/ \E c \in Stops : stop_pipeline_cleanup(c)
    \/ \E t \in Tasks : run_begin(t)
    \/ \E t \in Tasks : run_create(t)
    \/ \E t \in Tasks : run_loop(t)
    \/ \E t \in Tasks : run_generate(t)
    \/ \E t \in Tasks : run_generated(t)
    \/ \E t \in Tasks : run_attest(t)
    \/ \E t \in Tasks : run_attest_err(t)
    \/ \E t \in Tasks : run_persist(t)
    \/ \E t \in Tasks : run_persist_err(t)
    \/ \E t \in Tasks : run_progress(t)
    \/ \E t \in Tasks : run_wake(t)
    \/ \E t \in Tasks : run_complete(t)
    \/ \E t \in Tasks : run_except(t)
    \/ \E t \in Tasks : run_finally(t)
    \/ Tick

Spec == Init /\ [][Next]_vars

\* ------------------------------------------------------------- digests

Alphabet == {"a", "b"}

\* the texts of at most MaxLen characters
Strings == UNION {[1..n -> Alphabet] : n \in 0..MaxLen}

\* hashlib.sha256(...).hexdigest(), taken as collision-free: the digest
\* stands for the byte string it was computed from and for nothing else
sha256(bytes) == [sha256 |-> bytes]

\* str() of an int below 100, as the f-string formats it
Digit(d) == <<"0", "1", "2", "3", "4", "5", "6", "7", "8", "9">>[d + 1]
IntToStr(n) == IF n < 10 THEN <<Digit(n)>>
               ELSE <<Digit(n \div 10), Digit(n % 10)>>

\* blockchain_integration.py:207-210: f"{title}{content}{summary}"
hash_article_content(title, content, summary) ==
    sha256(title \o content \o summary)

\* blockchain_integration.py:212-216: the score, in thousandths here, goes
\* in as int(authenticity_score * 100)
hash_article_metadata(source, original_link, tags, authenticity_score) ==
    sha256(source \o original_link \o tags
                  \o IntToStr(authenticity_score \div 10))

\* blockchain_integration.py:421-441; the hex digests have one length, so
\* their concatenation is the pair of them
create_article_hash(article_data) ==
    LET content_hash == hash_article_content(article_data.title,
                            article_data.content, article_data.summary)
        metadata_hash == hash_article_metadata(article_data.source,
                            article_data.original_link, article_data.tags,
                            article_data.authenticity_score)
    IN [content_hash |-> content_hash,
        metadata_hash |-> metadata_hash,
        combined_hash |-> sha256(<<content_hash, metadata_hash>>),
        title_hash |-> sha256(article_data.title)]

\* blockchain_integration.py:526-536: the article_data that
\* integrate_blockchain_hashing builds, tags '' and score 0.75
ArticleData ==
    [title : Strings, content : Strings, summary : Strings,
     source : Strings, original_link : Strings, tags : {<<>>},
     authenticity_score : {750}]

\* one more article is hashed
create_article_hash_call(article_data) ==
    /\ Cardinality(digested) < 2
    /\ digested' = digested \cup
            {[article_data |-> article_data,
              hashes |-> create_article_hash(article_data)]}
    /\ UNCHANGED <<agentVars, nextId, storeVars, task, cleanup, envVars,
                   observers, response, agent_logs, sent_updates,
                   last_update, staged>>

NextDigest == \E article_data \in ArticleData :
                    create_article_hash_call(article_data)

SpecDigest == Init /\ [][NextDigest]_vars

\* the pipeline started while every websocket connection is open
InitObservers ==
    /\ is_running = FALSE
    /\ current_pipeline_id = None
    /\ start_time = NoTime
    /\ current_cycle = 0
    /\ total_articles_processed = 0
    /\ nextId = 0
    /\ pipeline_runs = [r \in RunIds |-> NoRun]
    /\ articles = <<>>
    /\ task = [t \in Tasks |-> NoTask]
    /\ cleanup = [c \in Stops |-> "idle"]
    /\ now = 0
    /\ faults = 0
    /\ observers = Observers
    /\ response = <<>>
    /\ agent_logs = <<>>
    /\ sent_updates = <<>>
    /\ digested = {}
    /\ last_update = <<>>
    /\ staged = NotStaged

SpecObservers == InitObservers /\ [][Next]_vars

\* ------------------------------------------------- send_update, row by row

\* the orchestrator as a call of send_update may find it: no run, or a run
\* in some cycle, and every websocket connection open
InitPublish ==
    /\ \E id \in {None} \cup RunIds, cycle \in 0..MaxTicks :
        /\ current_pipeline_id = id
        /\ is_running = (id # None)
        /\ start_time = IF id = None THEN NoTime ELSE 0
        /\ current_cycle = IF id = None THEN 0 ELSE cycle
        /\ nextId = id
    /\ total_articles_processed = 0
    /\ pipeline_runs = [r \in RunIds |-> NoRun]
    /\ articles = <<>>
    /\ task = [t \in Tasks |-> NoTask]
    /\ cleanup = [c \in Stops |-> "idle"]
    /\ now = 0
    /\ faults = 0
    /\ observers = Observers
    /\ response = <<>>
    /\ agent_logs = <<>>
    /\ sent_updates = <<>>
    /\ digested = {}
    /\ last_update = <<>>
    /\ staged = NotStaged

\* one call of send_update: some connections may have gone away and the
\* log write may raise
send_update_call(agent_name, failing, log_fails) ==
    /\ Len(sent_updates) < MaxLog
    /\ LET r == send_update(current_pipeline_id, agent_name, observers,
                            agent_logs, failing, log_fails)
       IN /\ observers' = r.connections
          /\ agent_logs' = r.agent_logs
          /\ sent_updates' = Append(sent_updates,
                [pipeline_id |-> current_pipeline_id,
                 agent_name |-> agent_name,
                 undelivered |-> failing # {},
                 log_fails |-> log_fails,
                 raised |-> r.raised])
    /\ UNCHANGED <<agentVars, nextId, storeVars, task, cleanup, envVars,
                   response, digested, last_update, staged>>

NextPublish ==
    \E agent_name \in AgentNames, failing \in SUBSET observers,
       log_fails \in BOOLEAN :
        send_update_call(agent_name, failing, log_fails)

SpecPublish == InitPublish /\ [][NextPublish]_vars

\* the pipeline with status requests coming in between its steps
NextStatus == Next \/ get_pipeline_status

SpecStatus == Init /\ [][NextStatus]_vars

\* ------------------------------------------- update_pipeline_status alone

\* the run store with some of the records created
InitUpdate ==
    /\ is_running = FALSE
    /\ current_pipeline_id = None
    /\ start_time = NoTime
    /\ current_cycle = 0
    /\ total_articles_processed = 0
    /\ nextId = MaxTasks
    /\ \E created \in SUBSET RunIds :
        pipeline_runs = [r \in RunIds |->
            IF r \in created THEN create_pipeline_run(
                                    [q \in RunIds |-> NoRun], r)[r]
            ELSE NoRun]
    /\ articles = <<>>
    /\ task = [t \in Tasks |-> NoTask]
    /\ cleanup = [c \in Stops |-> "idle"]
    /\ now = 0
    /\ faults = 0
    /\ observers = {}
    /\ response = <<>>
    /\ agent_logs = <<>>
    /\ sent_updates = <<>>
    /\ digested = {}
    /\ last_update = <<>>
    /\ staged = NotStaged

\* what the callers of update_pipeline_status pass as error_message
ErrorMessages == {NullMsg, "error"}

\* one call of update_pipeline_status; last_update keeps its arguments, the
\* record as the call found it, and whether the call before it was made
\* with the same arguments
update_pipeline_status_call(id, status, msg) ==
    /\ pipeline_runs' = update_pipeline_status(pipeline_runs, id, status,
                                               msg, now)
    /\ last_update' = <<[pipeline_id |-> id, status |-> status,
                         error_message |-> msg,
                         found |-> pipeline_runs[id],
                         repeated |->
                            /\ last_update # <<>>
                            /\ last_update[1].pipeline_id = id
                            /\ last_update[1].status = status
                            /\ last_update[1].error_message = msg]>>
    /\ UNCHANGED <<agentVars, nextId, articles, task, cleanup, envVars,
                   observers, response, agent_logs, sent_updates, digested,
                   staged>>

\* CURRENT_TIMESTAMP moves on between two calls
ClockTick ==
    /\ now + TickSeconds <= MaxTime
    /\ now' = now + TickSeconds
    /\ UNCHANGED <<agentVars, nextId, storeVars, task, cleanup, faults,
                   observers, response, agent_logs, sent_updates, digested,
                   last_update, staged>>

NextUpdate ==
    \/ \E id \in RunIds, status \in Terminal, msg \in ErrorMessages :
            update_pipeline_status_call(id, status, msg)
    \/ ClockTick

SpecUpdate == InitUpdate /\ [][NextUpdate]_vars

\* ------------------------------------------------- the loop of one run

\* the delays by which the clock is seen to advance
ElapseSeconds == {120, SleepInterval}

\* a run that was just created and is about to test its loop condition
InitSleep ==
    /\ is_running = TRUE
    /\ current_pipeline_id = 1
    /\ start_time = 0
    /\ current_cycle = 0
    /\ total_articles_processed = 0
    /\ nextId = 1
    /\ pipeline_runs = create_pipeline_run([r \in RunIds |-> NoRun], 1)
    /\ articles = <<>>
    /\ \E d \in Durations :
        task = [t \in Tasks |->
            IF t = 1 THEN [NoTask EXCEPT !.pc = "loop", !.dur = d, !.myId = 1,
                                         !.end_time = d * 60]
            ELSE NoTask]
    /\ cleanup = [c \in Stops |-> "idle"]
    /\ now = 0
    /\ faults = 0
    /\ observers = {}
    /\ response = <<>>
    /\ agent_logs = <<>>
    /\ sent_updates = <<>>
    /\ digested = {}
    /\ last_update = <<>>
    /\ staged = NotStaged

\* time passes, while the loop works or sleeps, by any of the delays
Elapse(seconds) ==
    /\ now + seconds <= MaxTime
    /\ now' = now + seconds
    /\ UNCHANGED <<agentVars, nextId, storeVars, task, cleanup, faults>>
    /\ UNCHANGED observers
    /\ PipelineStep

NextSleep ==
    \/ \E t \in Tasks : run_loop(t)
    \/ \E t \in Tasks : run_generate(t)
    \/ \E t \in Tasks : run_generated(t)
    \/ \E t \in Tasks : run_attest(t)
    \/ \E t \in Tasks : run_attest_err(t)
    \/ \E t \in Tasks : run_persist(t)
    \/ \E t \in Tasks : run_persist_err(t)
    \/ \E t \in Tasks : run_progress(t)
    \/ \E t \in Tasks : run_wake(t)
    \/ \E seconds \in ElapseSeconds : Elapse(seconds)

SpecSleep == InitSleep /\ [][NextSleep]_vars

\* ------------------------------------------------ one cycle, stage by stage

\* a run in its first cycle, about to call fetch_news
InitStages ==
    /\ is_running = TRUE
    /\ current_pipeline_id = 1
    /\ start_time = 0
    /\ current_cycle = 1
    /\ total_articles_processed = 0
    /\ nextId = 1
    /\ pipeline_runs = create_pipeline_run([r \in RunIds |-> NoRun], 1)
    /\ articles = <<>>
    /\ task = [t \in Tasks |-> NoTask]
    /\ cleanup = [c \in Stops |-> "idle"]
    /\ now = 0
    /\ faults = 0
    /\ observers = {}
    /\ response = <<>>
    /\ agent_logs = <<>>
    /\ sent_updates = <<>>
    /\ digested = {}
    /\ last_update = <<>>
    /\ staged = NotStaged

StageUnchanged ==
    UNCHANGED <<is_running, current_pipeline_id, start_time, current_cycle,
                nextId, pipeline_runs, task, cleanup, envVars, observers,
                response, agent_logs, sent_updates, digested, last_update>>

\* agents.py:405-407: fetch_news; an empty batch ends the cycle
fetch_news_call(feeds) ==
    /\ staged.stage = "fetch"
    /\ LET fetched == fetch_news(feeds)
       IN staged' = [staged EXCEPT
            !.stage = IF fetched.all_articles = <<>> THEN "done"
                      ELSE "verify",
            !.articles = fetched.all_articles,
            !.events = fetched.events,
            !.feeds = feeds]
    /\ StageUnchanged
    /\ UNCHANGED <<articles, total_articles_processed>>

\* agents.py:409
check_authenticity_call(failing) ==
    /\ staged.stage = "verify"
    /\ staged' = [staged EXCEPT
            !.stage = "debias",
            !.articles = check_authenticity(staged.articles, failing),
            !.llm_failed = failing]
    /\ StageUnchanged
    /\ UNCHANGED <<articles, total_articles_processed>>

\* agents.py:412
remove_bias_call(failing) ==
    /\ staged.stage = "debias"
    /\ staged' = [staged EXCEPT
            !.stage = "generate",
            !.articles = remove_bias(staged.articles, failing),
            !.llm_failed = failing]
    /\ StageUnchanged
    /\ UNCHANGED <<articles, total_articles_processed>>

\* agents.py:415
generate_articles_call(llm_failing, save_failing) ==
    /\ staged.stage = "generate"
    /\ LET generated == generate_articles(articles, current_pipeline_id,
                            current_cycle, staged.articles, llm_failing,
                            save_failing)
       IN /\ articles' = generated.articles
          /\ total_articles_processed' =
                total_articles_processed + generated.processed
          /\ staged' = [staged EXCEPT
                !.stage = "done",
                !.final_articles = generated.final_articles,
                !.llm_failed = llm_failing,
                !.save_failed = save_failing]
    /\ StageUnchanged

BatchIndices == SUBSET (1..Len(staged.articles))

NextStages ==
    \/ \E feeds \in Feeds : fetch_news_call(feeds)
    \/ \E failing \in BatchIndices : check_authenticity_call(failing)
    \/ \E failing \in BatchIndices : remove_bias_call(failing)
    \/ \E llm_failing \in BatchIndices : \E save_failing \in BatchIndices :
            generate_articles_call(llm_failing, save_failing)

SpecStages == InitStages /\ [][NextStages]_vars

\* ------------------------------------------------------------- properties

\* C1: over any sequence of start and stop requests at most one cycle loop
\* is executing, a loop that was asked to stop and has not yet left counted
C1_AtMostOneLoop == Cardinality({t \in Tasks : InLoop(t)}) <= 1

\* C2: a start while a run is active is rejected: no coroutine is created by
\* the route, and a coroutine that meets the guard ends there without a new
\* run id, without a record, and with the active run's id, start time, cycle
\* counter, processed count and record as they were
C2_StartWhileActiveRejected ==
    [][is_running =>
        /\ \A t \in Tasks : task[t].pc = "idle" => task'[t].pc = "idle"
        /\ \A t \in Tasks : (task[t].pc = "init" /\ task'[t].pc # "init") =>
            /\ task'[t].pc = "done"
            /\ task'[t].myId = None
            /\ UNCHANGED <<agentVars, nextId, pipeline_runs>>]_vars

\* a start was rejected by the guard while another run is active
C2_Witness ==
    /\ is_running
    /\ \E t \in Tasks : task[t].pc = "done" /\ task[t].myId = None
    /\ \E u \in Tasks : InFlight(u) /\ task[u].myId = current_pipeline_id

\* C3: a run that was asked to stop has, once its loop and the cleanup task
\* have ended and no store call failed, a record STOPPED with ended_at set
C3_StoppedRunEndsStopped ==
    \A t \in Tasks :
        (/\ task[t].stopReq
         /\ task[t].pc = "done"
         /\ \A c \in Stops : cleanup[c] # "scheduled"
         /\ faults = 0)
        => /\ pipeline_runs[task[t].myId].status = "STOPPED"
           /\ pipeline_runs[task[t].myId].ended_at # NoTime

\* C4: the loop of a run that was asked to stop begins no further cycle and
\* does not increment the cycle counter again: its next loop test leaves
\* the loop, whatever start requests came in between
C4_NoCycleAfterStop ==
    [][\A t \in Tasks :
        (task[t].stopReq /\ task[t].pc = "loop" /\ task'[t].pc # "loop")
            => (task'[t].pc = "complete"
                /\ current_cycle' = current_cycle)]_vars

\* C5: a record in COMPLETED, STOPPED or ERROR keeps that state
C5_TerminalIsFinal ==
    [][\A r \in RunIds : pipeline_runs[r].status \in Terminal =>
            pipeline_runs'[r].status = pipeline_runs[r].status]_vars

\* C6: for every record, ended_at is set exactly when the state is terminal
C6_EndedAtIffTerminal ==
    \A r \in RunIds : RunExists(pipeline_runs, r) =>
        (pipeline_runs[r].ended_at # NoTime
            <=> pipeline_runs[r].status \in Terminal)

\* a record in a terminal state next to one that is still RUNNING
C6_Witness ==
    /\ \E r \in RunIds : /\ pipeline_runs[r].status \in Terminal
                         /\ pipeline_runs[r].ended_at # NoTime
    /\ \E r \in RunIds : /\ pipeline_runs[r].status = "RUNNING"
                         /\ pipeline_runs[r].ended_at = NoTime

\* C7: when a failure escapes a cycle, the handler's write (if it does not
\* fail itself) leaves the record of that run in ERROR with the description
\* of the failure as its message, and the finally block leaves the running
\* flag false, the run id cleared and the final progress event emitted
C7_EscapedFailureEndsInError ==
    [][\A t \in Tasks :
        /\ (/\ task[t].pc = "except"
            /\ task[t].exc \in {"attest", "persist"}
            /\ task'[t].pc = "finally"
            /\ faults' = faults)
           => /\ pipeline_runs'[task[t].myId].status = "ERROR"
              /\ pipeline_runs'[task[t].myId].error_message = task[t].exc
        /\ (task[t].pc = "finally" /\ task'[t].pc = "done")
           => /\ ~is_running'
              /\ current_pipeline_id' = None
              /\ task'[t].finalEvent]_vars

\* C8: a run whose loop ends on its time budget, with no stop request and no
\* failed store call, is written COMPLETED with the persisted current_cycle
\* and articles_processed equal to the final cycle counter and article count
C8_CompletedPersistsFinalCounts ==
    [][\A t \in Tasks :
        (/\ task[t].pc = "complete"
         /\ task'[t].pc = "finally"
         /\ \A c \in Stops : cleanup[c] = "idle"
         /\ faults' = 0)
        => /\ pipeline_runs'[task[t].myId].status = "COMPLETED"
           /\ pipeline_runs'[task[t].myId].current_cycle = current_cycle
           /\ pipeline_runs'[task[t].myId].articles_processed =
                    total_articles_processed]_vars

\* C9: the persisted current_cycle of a run id never decreases
C9_PersistedCycleMonotonic ==
    [][\A r \in RunIds : RunExists(pipeline_runs, r) =>
            pipeline_runs'[r].current_cycle >=
                pipeline_runs[r].current_cycle]_vars

\* the progress of a second cycle was written to the record of a run
C9_Witness ==
    \E r \in RunIds : /\ pipeline_runs[r].status = "RUNNING"
                      /\ pipeline_runs[r].current_cycle = 2
                      /\ pipeline_runs[r].articles_processed = 1

\* C10: no failure that arises while an article is attested, or in the
\* bookkeeping of the attestation, moves a run to ERROR
C10_AttestationFailureNotFatal ==
    \A r \in RunIds : pipeline_runs[r].status = "ERROR" =>
        pipeline_runs[r].error_message \notin {"attest", "persist"}

\* C11: an article whose ledger submission failed is still in the table
\* afterwards, as the generate stage saved it, with blockchain_stored false
\* and no transaction hash, ledger article id or explorer URL recorded
C11_LedgerFailureKeepsArticle ==
    [][\A i \in 1..Len(articles) :
        /\ i <= Len(articles')
        /\ articles'[i].pipeline_id = articles[i].pipeline_id
        /\ articles'[i].cycle_number = articles[i].cycle_number
        /\ articles'[i].ledger = "failed" =>
            /\ ~articles'[i].blockchain_stored
            /\ ~articles'[i].blockchain_transaction_hash
            /\ ~articles'[i].blockchain_article_id
            /\ ~articles'[i].blockchain_explorer_url]_vars

\* the bookkeeping has updated an article whose ledger submission failed
C11_Witness ==
    \E i \in 1..Len(articles) : /\ articles[i].ledger = "failed"
                                /\ articles[i].attest_writes = 1
                                /\ articles[i].content_hash

\* C12: blockchain_stored of an article is true only if the ledger write
\* transaction made for it was confirmed with a successful receipt
C12_StoredOnlyIfConfirmed ==
    \A i \in 1..Len(articles) :
        articles[i].blockchain_stored => articles[i].ledger = "confirmed"

\* an article is recorded as stored on the ledger
C12_Witness ==
    \E i \in 1..Len(articles) : /\ articles[i].blockchain_stored
                                /\ articles[i].blockchain_transaction_hash
                                /\ articles[i].attest_writes = 1

\* C13: until the attestation columns of an article are written, all seven
\* of them (stored flag, content digest, metadata digest, transaction hash,
\* ledger article id, network, explorer URL) are unset
C13_AttestationFieldsUnsetUntilAttested ==
    \A i \in 1..Len(articles) : articles[i].attest_writes = 0 =>
        /\ ~articles[i].blockchain_stored
        /\ ~articles[i].content_hash
        /\ ~articles[i].metadata_hash
        /\ ~articles[i].blockchain_transaction_hash
        /\ ~articles[i].blockchain_article_id
        /\ articles[i].blockchain_network = NullMsg
        /\ ~articles[i].blockchain_explorer_url

\* C14: when the bookkeeping of a cycle is over, the attestation columns of
\* every article the cycle saved have been written exactly once, whether
\* its attestation succeeded or failed
C14_AttestationFieldsWrittenOnce ==
    \A t \in Tasks : task[t].pc = "progress" =>
        \A k \in 1..Len(task[t].final) :
            articles[task[t].final[k].id].attest_writes = 1

\* C15: a status request can be answered in every reachable state; the step
\* that answers it returns the running flag, the run id, the start time,
\* the cycle counter and the processed count as they are, and changes
\* nothing of the orchestrator, its coroutines or the store
C15_StatusIsReadOnly ==
    [][response' # <<>> =>
        /\ response' = <<[is_running |-> is_running,
                          pipeline_id |-> current_pipeline_id,
                          start_time |-> start_time,
                          current_cycle |-> current_cycle,
                          total_articles_processed |->
                                total_articles_processed]>>
        /\ UNCHANGED <<agentVars, nextId, storeVars, task, cleanup>>]_vars

\* a status request answered for a run that was asked to stop and whose
\* loop is in its second cycle or later
C15_Witness ==
    /\ response # <<>>
    /\ ~response[1].is_running
    /\ response[1].pipeline_id # None
    /\ response[1].current_cycle >= 1
    /\ \E t \in Tasks : task[t].stopReq /\ InLoop(t)

\* the rows that the calls of send_update made so far must have left in
\* agent_logs: one for every call made with a run id whose log write did
\* not fail, delivered or not
RECURSIVE ExpectedLogs(_)
ExpectedLogs(calls) ==
    IF calls = <<>> THEN <<>>
    ELSE LET c == calls[Len(calls)]
             before == ExpectedLogs(SubSeq(calls, 1, Len(calls) - 1))
         IN IF c.pipeline_id # None /\ ~c.log_fails
            THEN Append(before, [pipeline_id |-> c.pipeline_id,
                                 agent_name |-> c.agent_name,
                                 log_level |-> "INFO"])
            ELSE before

\* C16: send_update appends the event to agent_logs whenever a run id is
\* set, also when the delivery to an observer failed; a log write that
\* fails is swallowed, and no call raises into its caller
C16_PublishLogsAndNeverRaises ==
    /\ agent_logs = ExpectedLogs(sent_updates)
    /\ \A k \in 1..Len(sent_updates) : ~sent_updates[k].raised

\* an event was logged although its delivery failed, and a later log write
\* failed
C16_Witness ==
    /\ Len(agent_logs) = 1
    /\ Len(sent_updates) = 2
    /\ sent_updates[1].undelivered
    /\ ~sent_updates[1].log_fails
    /\ sent_updates[2].log_fails
    /\ sent_updates[2].pipeline_id # None

\* C17: a failure to deliver an event to an observer is never escalated:
\* no coroutine leaves its cycle because of a broadcast, in the attestation
\* step or elsewhere, and no run is moved to ERROR by one
C17_DeliveryFailureNotEscalated ==
    /\ \A t \in Tasks : task[t].exc # "broadcast"
    /\ \A r \in RunIds : pipeline_runs[r].error_message # "broadcast"

\* a broadcast of the attestation step lost an observer and the cycle went
\* on to its bookkeeping, its run still RUNNING
C17_Witness ==
    \E t \in Tasks :
        /\ task[t].undelivered
        /\ task[t].pc = "persist"
        /\ observers # Observers
        /\ pipeline_runs[task[t].myId].status = "RUNNING"

\* C18: when the store call that creates the run record fails, the
\* coroutine goes to its except block without entering the loop, the cycle
\* counter stays as it was, the coroutine never executes a cycle afterwards,
\* and its finally block leaves the running flag false and the run id
\* cleared
C18_CreateFailureIsFatal ==
    [][\A t \in Tasks :
        /\ (task[t].pc = "create" /\ task'[t].pc # "create"
                /\ faults' > faults)
            => /\ task'[t].pc = "except"
               /\ task'[t].exc = "create"
               /\ current_cycle' = current_cycle
               /\ pipeline_runs' = pipeline_runs
        /\ task[t].exc = "create"
            => task'[t].pc \in {"except", "finally", "done"}
        /\ (task[t].exc = "create" /\ task[t].pc = "finally"
                /\ task'[t].pc = "done")
            => /\ ~is_running'
               /\ current_pipeline_id' = None]_vars

\* a run whose record could not be created has ended: no record, no cycle,
\* the orchestrator idle
C18_Witness ==
    \E t \in Tasks :
        /\ task[t].exc = "create"
        /\ task[t].pc = "done"
        /\ faults = 1
        /\ pipeline_runs[task[t].myId].status = "NONE"
        /\ current_cycle = 0
        /\ ~is_running
        /\ current_pipeline_id = None

\* C19: a log write that fails in the middle of a cycle, in the
\* attestation step or in the orchestrator's bookkeeping of it, does not
\* take the coroutine out of its cycle
C19_LogFailureSwallowed ==
    [][\A t \in Tasks :
        task[t].pc \in {"attest", "attest_err", "persist", "persist_err"}
            => task'[t].pc # "except"]_vars

\* C20: two articles whose digests are identical have identical fields
C20_EqualDigestsEqualContent ==
    \A x, y \in digested :
        (/\ x.hashes.content_hash = y.hashes.content_hash
         /\ x.hashes.metadata_hash = y.hashes.metadata_hash
         /\ x.hashes.combined_hash = y.hashes.combined_hash)
        => x.article_data = y.article_data

\* C22: the error_message of a record is non-null only if the record is in
\* ERROR
C22_ErrorMessageOnlyInError ==
    \A r \in RunIds : pipeline_runs[r].error_message # NullMsg =>
        pipeline_runs[r].status = "ERROR"

\* a record in ERROR with its message next to a record that ended in
\* another terminal state, without a message
C22_Witness ==
    /\ \E r \in RunIds : /\ pipeline_runs[r].status = "ERROR"
                         /\ pipeline_runs[r].error_message # NullMsg
    /\ \E r \in RunIds : /\ pipeline_runs[r].status \in {"COMPLETED", "STOPPED"}
                         /\ pipeline_runs[r].error_message = NullMsg

\* the articles of the table saved under a pipeline id
ArticlesOf(id) == {i \in 1..Len(articles) : articles[i].pipeline_id = id}

\* C28: when the loop of the active run stands between two cycles, the
\* processed count of the orchestrator is the number of articles saved
\* under the id of that run
C28_ProcessedCountIsArticleCount ==
    \A t \in Tasks :
        (/\ task[t].pc \in {"loop", "progress", "sleep"}
         /\ is_running
         /\ current_pipeline_id = task[t].myId)
        => total_articles_processed = Cardinality(ArticlesOf(task[t].myId))

\* every coroutine ever created has ended
Quiescent ==
    /\ \A t \in Tasks : task[t].pc \in {"idle", "done"}
    /\ \A c \in Stops : cleanup[c] # "scheduled"

\* C29: once every coroutine has ended, no store call having failed, every
\* record that was created is COMPLETED, STOPPED or ERROR and the
\* orchestrator is idle; a record still RUNNING then is written by nothing
\* any more
C29_EveryRunEndsTerminal ==
    (Quiescent /\ faults = 0) =>
        /\ ~is_running
        /\ \A r \in RunIds : RunExists(pipeline_runs, r) =>
                pipeline_runs[r].status \in Terminal

\* C30: whenever the running flag is true the pipeline id is set
C30_RunningHasRunId == is_running => current_pipeline_id # None

\* the flag is true and the id set while a loop that was asked to stop is
\* still at work next to the run that was started after it
C30_Witness ==
    /\ is_running
    /\ current_pipeline_id # None
    /\ \E t, u \in Tasks : /\ task[t].stopReq /\ InFlight(t)
                           /\ InFlight(u)
                           /\ task[u].myId = current_pipeline_id
                           /\ task[t].myId # current_pipeline_id

\* C21: a call of update_pipeline_status(id, COMPLETED) that follows a call
\* with the same arguments leaves the record as it found it, with the same
\* state, error message and ended_at
C21_UpdateStatusIdempotent ==
    (/\ last_update # <<>>
     /\ last_update[1].repeated
     /\ last_update[1].status = "COMPLETED")
    => pipeline_runs[last_update[1].pipeline_id] = last_update[1].found

\* C23: the loop goes to sleep only with time left in its budget, for the
\* smaller of the interval and the time left, so that the sleep ends no
\* later than the budget; with no time left the end of a cycle leaves the
\* loop without a sleep; and no cycle begins at or after the end time
C23_SleepWithinBudget ==
    [][\A t \in Tasks :
        LET remaining_time == task[t].end_time - now
        IN /\ (task[t].pc \in {"loop", "progress"} /\ task'[t].pc = "sleep")
                => /\ remaining_time > 0
                   /\ task'[t].slept = Min(SleepInterval, remaining_time)
                   /\ task'[t].wake = now + task'[t].slept
                   /\ task'[t].wake <= task[t].end_time
           /\ (task[t].pc = "progress" /\ task'[t].pc # "progress"
                    /\ remaining_time <= 0)
                => task'[t].pc = "complete"
           /\ (task[t].pc = "progress" /\ task'[t].pc = "complete")
                => remaining_time <= 0
           /\ (task[t].pc = "loop" /\ task'[t].pc # "loop"
                    /\ current_cycle' # current_cycle)
                => now < task[t].end_time]_vars

\* a loop asleep for the rest of its budget, less than the interval, after
\* a cycle that saved an article
C23_Witness ==
    \E t \in Tasks :
        /\ task[t].pc = "sleep"
        /\ task[t].slept > 0
        /\ task[t].slept < SleepInterval
        /\ task[t].wake = task[t].end_time
        /\ Len(articles) > 0

\* C24: check_authenticity and remove_bias return the items they were
\* given, each once and in the same order, nothing changed but the
\* annotation of the stage: the analysis, or the error annotation for an
\* item whose model call failed; the rewrite, or the content of the item
\* itself for an item whose model call failed
C24_StagesKeepEveryItem ==
    [][/\ (staged.stage = "verify" /\ staged'.stage # "verify")
            => /\ staged'.stage = "debias"
               /\ Len(staged'.articles) = Len(staged.articles)
               /\ \A i \in 1..Len(staged.articles) :
                    staged'.articles[i] =
                        [staged.articles[i] EXCEPT !.authenticity_check =
                            IF i \in staged'.llm_failed THEN "error"
                            ELSE "analysis"]
       /\ (staged.stage = "debias" /\ staged'.stage # "debias")
            => /\ staged'.stage = "generate"
               /\ Len(staged'.articles) = Len(staged.articles)
               /\ \A i \in 1..Len(staged.articles) :
                    staged'.articles[i] =
                        [staged.articles[i] EXCEPT !.unbiased_version =
                            IF i \in staged'.llm_failed
                            THEN staged.articles[i].content
                            ELSE "unbiased"]]_vars

\* a batch of two items has passed both stages, the model call failing for
\* the first item in verify and for the second in de-bias
C24_Witness ==
    /\ staged.stage = "generate"
    /\ Len(staged.articles) = 2
    /\ staged.articles[1].authenticity_check = "error"
    /\ staged.articles[1].unbiased_version = "unbiased"
    /\ staged.articles[2].authenticity_check = "analysis"
    /\ staged.articles[2].unbiased_version = staged.articles[2].content
    /\ staged.articles[1].title # staged.articles[2].title

\* the items of the batch whose INSERT did not fail, in their order
Saved(st) == SelectSeq([i \in 1..Len(st.articles) |-> i],
                       LAMBDA i : i \notin st.save_failed)

\* C25: generate_articles saves every item of the batch whose INSERT does
\* not fail, in the order of the batch, under the pipeline id and the cycle,
\* with the degraded content when its model call failed; the failure of an
\* item leaves the rows of the other items and the rows that were there
\* before as they are
C25_GeneratePersistsEachItem ==
    [][(staged.stage = "generate" /\ staged'.stage # "generate")
        => LET saved == Saved(staged')
           IN /\ Len(articles') = Len(articles) + Len(saved)
              /\ \A k \in 1..Len(articles) : articles'[k] = articles[k]
              /\ \A k \in 1..Len(saved) :
                    LET row == articles'[Len(articles) + k]
                    IN /\ row.original_title =
                                staged.articles[saved[k]].title
                       /\ row.generated_content =
                            IF saved[k] \in staged'.llm_failed
                            THEN "degraded" ELSE "generated"
                       /\ row.pipeline_id = current_pipeline_id
                       /\ row.cycle_number = current_cycle
                       /\ staged'.final_articles[k].id = Len(articles) + k
              /\ Len(staged'.final_articles) = Len(saved)
              /\ total_articles_processed' =
                    total_articles_processed + Len(saved)]_vars

\* of a batch of two items the INSERT of the first failed and the second,
\* whose model call failed, was saved with the degraded content
C25_Witness ==
    /\ staged.stage = "done"
    /\ Len(staged.articles) = 2
    /\ staged.save_failed = {1}
    /\ staged.llm_failed = {2}
    /\ Len(articles) = 1
    /\ articles[1].original_title = staged.articles[2].title
    /\ articles[1].generated_content = "degraded"
    /\ total_articles_processed = 1

\* a source failed entirely: nothing of its feed was obtained
SourceFailed(feed) == feed.result \in {"raises", "unretrieved"}

\* C26: when a source fails entirely, fetch_news returns no item of that
\* source, has an event for every source, the items of the other sources in
\* its batch, and an event that describes the error of that source
C26_SourceFailureReported ==
    [][(staged.stage = "fetch" /\ staged'.stage # "fetch")
        => \A source \in Sources : SourceFailed(staged'.feeds[source]) =>
            /\ \A i \in 1..Len(staged'.articles) :
                    staged'.articles[i].source # source
            /\ \A other \in Sources :
                /\ \E e \in 1..Len(staged'.events) :
                        staged'.events[e].source = other
                /\ Cardinality({i \in 1..Len(staged'.articles) :
                        staged'.articles[i].source = other}) =
                   Min(EntryLimit, Len(staged'.feeds[other].entries))
            /\ \E e \in 1..Len(staged'.events) :
                    /\ staged'.events[e].source = source
                    /\ staged'.events[e].event = "Error fetching from"]_vars

\* C27: an item of the batch whose page was not retrieved and parsed has
\* its summary as its content
C27_FailedPageFallsBackToSummary ==
    \A i \in 1..Len(staged.articles) :
        staged.articles[i].page # "ok" =>
            staged.articles[i].content = staged.articles[i].summary

====
